---- MODULE Spec2Model ----
(***************************************************************************)
(* Ingestion / deduplication / posting pipeline of freerg.store            *)
(* (src/app.py): the deals table, save_deals, the Publisher                *)
(* (post_unposted_to_telegram), job_async under JOB_LOCK, post_last,       *)
(* cleanup_expired and process restarts.                                   *)
(*                                                                         *)
(* Modelling notes                                                         *)
(*  - deal_id is sha256(store|url)[:24]; the model keeps the hashed pair   *)
(*    <<store, url>> itself (the truncated hash is taken collision-free).  *)
(*  - Time is counted in whole days; a timestamp string is kept as its     *)
(*    textual form plus the day it denotes.                                *)
(*  - A deals row keeps the columns store, external_id, kind, title, url,  *)
(*    ends_at, posted, created_at; image_url, source, starts_at and the    *)
(*    price columns are written once by the INSERT and never read by the   *)
(*    operations modelled here.                                            *)
(*  - Job runs are started through run_job, which gives every run its own  *)
(*    asyncio.run on a worker of the scheduler, so a run can be triggered  *)
(*    while another is inside JOB_LOCK.  JOB_LOCK is modelled as asyncio   *)
(*    documents asyncio.Lock: acquire takes a free lock at once and        *)
(*    otherwise suspends the caller; release hands the lock to the oldest  *)
(*    waiter.  What the lock does when several event loops share it is     *)
(*    outside the model.                                                   *)
(*  - The store argument of a run suspended on JOB_LOCK is read only once  *)
(*    the run is inside the lock, so it is drawn at that moment.           *)
(*  - SQLite statements and commits are taken to succeed.                  *)
(***************************************************************************)
EXTENDS Integers, Sequences, FiniteSets, TLC

VARIABLES
    deals,      \* the deals table: deal id -> row
    now,        \* the wall clock, in days
    bot,        \* TRUE iff the Telegram bot is configured (TG_BOT_TOKEN set)
    lock,       \* JOB_LOCK.locked()
    running,    \* the frames of the job_async runs inside `async with JOB_LOCK`
    waiting,    \* the number of runs suspended in `async with JOB_LOCK`
    ret,        \* what the handler that finished in the last step returned
    inp,        \* the candidate list of the last direct save_deals call
    fresh       \* TRUE from a restart of the process until a job run ends

vars == <<deals, now, bot, lock, running, waiting, ret, inp, fresh>>

----------------------------------------------------------------------------
(* Bounds *)

MaxWaiting == 1     \* job_async runs that can be queued on JOB_LOCK together
MaxNow == 1         \* the clock runs over 0..MaxNow
MaxN == 1           \* largest n of /post_last
MaxBatch == 2       \* longest candidate list of a direct save_deals call

(* Program constants *)

POST_LIMIT == 10    \* src/app.py:39
KEEP_DAYS == 7      \* src/app.py:240, 2976

NULL == "NULL"      \* Python None / SQL NULL where a string is expected

FreeKinds == {"free_to_keep", "free_weekend"}

----------------------------------------------------------------------------
(* Timestamps: a textual form and the day it denotes (0 when it denotes none) *)

EndNull == [form |-> "null", day |-> 0]          \* None
EndEmpty == [form |-> "empty", day |-> 0]        \* ""
EndBad == [form |-> "bad", day |-> 0]            \* not ISO-8601
EndZ(d) == [form |-> "z", day |-> d]             \* "...T00:00:00Z"
EndOffset(d) == [form |-> "offset", day |-> d]   \* "...T00:00:00+00:00"
EndNaive(d) == [form |-> "naive", day |-> d]     \* "...T00:00:00", no zone

\* datetime.fromisoformat after the "Z" -> "+00:00" rewrite
parse_iso_utc(s) ==
    IF s.form \in {"null", "empty"} THEN [ok |-> FALSE, aware |-> FALSE, day |-> 0]
    ELSE IF s.form \in {"z", "offset"} THEN [ok |-> TRUE, aware |-> TRUE, day |-> s.day]
    ELSE IF s.form = "naive" THEN [ok |-> TRUE, aware |-> FALSE, day |-> s.day]
    ELSE [ok |-> FALSE, aware |-> FALSE, day |-> 0]

----------------------------------------------------------------------------
(* The deals table *)

deal_id(store, external_id, url) == <<store, url>>

Cand(store, external_id, kind, title, url, ends_at) ==
    [store |-> store, external_id |-> external_id, kind |-> kind,
     title |-> title, url |-> url, ends_at |-> ends_at]

Row(store, external_id, kind, title, url, ends_at, posted, created_at) ==
    [store |-> store, external_id |-> external_id, kind |-> kind,
     title |-> title, url |-> url, ends_at |-> ends_at,
     posted |-> posted, created_at |-> created_at]

OrEmpty(x) == IF x = NULL THEN "" ELSE x         \* x or ""

\* INSERT OR REPLACE in place of INSERT OR IGNORE
InsertOrReplace(db, did, row) ==
    [i \in DOMAIN db \cup {did} |-> IF i = did THEN row ELSE db[i]]

\* INSERT OR IGNORE of one candidate: the row is added iff its id is absent
InsertOrIgnore(db, did, row) ==
    IF did \in DOMAIN db THEN db
    ELSE [i \in DOMAIN db \cup {did} |-> IF i = did THEN row ELSE db[i]]

\* the loop of save_deals with new_items += 1 for every candidate that has
\* a url, whatever cur.rowcount is
RECURSIVE SaveLoopCountAll(_, _, _, _)
SaveLoopCountAll(db, batch, t, new_items) ==
    IF batch = <<>> THEN [db |-> db, new_items |-> new_items]
    ELSE LET d == Head(batch)
             store == OrEmpty(d.store)
             external_id == OrEmpty(d.external_id)
             url == OrEmpty(d.url)
             did == deal_id(store, external_id, url)
             row == Row(store, external_id, d.kind, d.title, url, d.ends_at, 0, t)
         IN  IF url = "" THEN SaveLoopCountAll(db, Tail(batch), t, new_items)
             ELSE SaveLoopCountAll(InsertOrIgnore(db, did, row), Tail(batch), t,
                                   new_items + 1)

\* for d in deals: ... INSERT OR IGNORE ...; if cur.rowcount == 1: new_items += 1
RECURSIVE SaveLoop(_, _, _, _)
SaveLoop(db, batch, t, new_items) ==
    IF batch = <<>> THEN [db |-> db, new_items |-> new_items]
    ELSE LET d == Head(batch)
             store == OrEmpty(d.store)
             external_id == OrEmpty(d.external_id)
             url == OrEmpty(d.url)
             did == deal_id(store, external_id, url)
             row == Row(store, external_id, d.kind, d.title, url, d.ends_at, 0, t)
         IN  IF url = "" THEN SaveLoop(db, Tail(batch), t, new_items)
             ELSE SaveLoop(InsertOrIgnore(db, did, row), Tail(batch), t,
                           IF did \in DOMAIN db THEN new_items ELSE new_items + 1)

save_deals(db, batch, t) == SaveLoop(db, batch, t, 0)

\* the sweep with `if dt <= cutoff` in place of `if dt < cutoff`
CleanupInclusive(db, keep_days, t) ==
    LET cutoff == t - keep_days
        to_delete == {i \in DOMAIN db :
                        LET dt == parse_iso_utc(db[i].ends_at)
                        IN  dt.ok /\ dt.aware /\ dt.day <= cutoff}
    IN  [db |-> [i \in DOMAIN db \ to_delete |-> db[i]],
         deleted |-> Cardinality(to_delete)]

\* the sweep with an except branch that deletes the row it could not date,
\* and without the `ends_at IS NOT NULL AND ends_at != ''` filter
CleanupDropsUndated(db, keep_days, t) ==
    LET cutoff == t - keep_days
        to_delete == {i \in DOMAIN db :
                        LET dt == parse_iso_utc(db[i].ends_at)
                        IN  ~dt.ok \/ (dt.aware /\ dt.day < cutoff)}
    IN  [db |-> [i \in DOMAIN db \ to_delete |-> db[i]],
         deleted |-> Cardinality(to_delete)]

\* the sweep with a `posted = 0` test added to its SELECT
CleanupKeepsPosted(db, keep_days, t) ==
    LET cutoff == t - keep_days
        to_delete == {i \in DOMAIN db :
                        LET dt == parse_iso_utc(db[i].ends_at)
                        IN  dt.ok /\ dt.aware /\ dt.day < cutoff /\ db[i].posted = 0}
    IN  [db |-> [i \in DOMAIN db \ to_delete |-> db[i]],
         deleted |-> Cardinality(to_delete)]

\* cleanup_expired: rows whose ends_at parses to an instant before the cutoff.
\* A zone-less ends_at parses, but comparing it with the zone-aware cutoff
\* raises TypeError inside the try, so the row is kept.
cleanup_expired(db, keep_days, t) ==
    LET cutoff == t - keep_days
        to_delete == {i \in DOMAIN db :
                        LET dt == parse_iso_utc(db[i].ends_at)
                        IN  dt.ok /\ dt.aware /\ dt.day < cutoff}
    IN  [db |-> [i \in DOMAIN db \ to_delete |-> db[i]],
         deleted |-> Cardinality(to_delete)]

----------------------------------------------------------------------------
(* ORDER BY ... LIMIT: every row order SQLite may return.  An item is    *)
(* <<k1, k2, id>>, ordered by (k1, k2); rows with equal keys come in any   *)
(* order.  A negative LIMIT is no limit.                                   *)

KeyLE(a, b) == a[1] < b[1] \/ (a[1] = b[1] /\ a[2] <= b[2])

RECURSIVE TakeOrdered(_, _)
TakeOrdered(items, k) ==
    IF k = 0 \/ items = {} THEN {<<>>}
    ELSE UNION {{<<m[3]>> \o rest : rest \in TakeOrdered(items \ {m}, k - 1)} :
                  m \in {x \in items : \A y \in items : KeyLE(x, y)}}

OrderByLimit(items, limit) ==
    TakeOrdered(items, IF limit < 0 THEN Cardinality(items) ELSE limit)

SeqSet(q) == {q[j] : j \in 1..Len(q)}

----------------------------------------------------------------------------
(* The Publisher *)

\* the WHERE clause without its posted=0 test
UnpostedAnyFlag(db, store) ==
    {i \in DOMAIN db : /\ db[i].kind \in FreeKinds
                       /\ (store \in {NULL, ""} \/ db[i].store = store)}

\* WHERE posted=0 AND kind IN ('free_to_keep','free_weekend') [AND store=?]
Unposted(db, store) ==
    {i \in DOMAIN db : /\ db[i].posted = 0
                       /\ db[i].kind \in FreeKinds
                       /\ (store \in {NULL, ""} \/ db[i].store = store)}

\* ORDER BY created_at ASC LIMIT ? with the CASE kind term left out
SelectOldestFirst(db, limit, store) ==
    OrderByLimit({<<0, db[i].created_at, i>> : i \in Unposted(db, store)}, limit)

\* the selection without its LIMIT
SelectNoLimit(db, limit, store) ==
    OrderByLimit({<<IF db[i].kind = "free_to_keep" THEN 0 ELSE 1, db[i].created_at, i>> :
                    i \in Unposted(db, store)}, Cardinality(DOMAIN db))

\* ORDER BY CASE kind WHEN 'free_to_keep' THEN 0 ELSE 1 END, created_at ASC LIMIT ?
SelectUnposted(db, limit, store) ==
    OrderByLimit({<<IF db[i].kind = "free_to_keep" THEN 0 ELSE 1, db[i].created_at, i>> :
                    i \in Unposted(db, store)}, limit)

\* One pass of post_unposted_to_telegram: every outcome it can have.
\* With no bot it returns at once.  Otherwise it selects the batch; for the
\* first selected row it builds the message and then evaluates
\* `... if include_button else None` (line 1270).  include_button is a local
\* of tg_go_url only, so the name is unbound here and NameError is raised
\* before the try block that holds the send and the UPDATE posted=1 (lines
\* 1280-1304): the pass makes no send and no UPDATE and the exception leaves
\* the coroutine.  An empty batch skips the loop and returns the counts.
post_unposted_to_telegram(db, limit, store, botOK) ==
    IF ~botOK
    THEN {[raised |-> FALSE, rows |-> <<>>, posted |-> 0, queued |-> 0,
           reason |-> "bot/chat_id missing", db |-> db]}
    ELSE {IF rows = <<>>
          THEN [raised |-> FALSE, rows |-> rows, posted |-> 0, queued |-> 0,
                reason |-> "", db |-> db]
          ELSE [raised |-> TRUE, rows |-> rows, posted |-> 0, queued |-> Len(rows),
                reason |-> "NameError", db |-> db]
          : rows \in SelectUnposted(db, limit, store)}

----------------------------------------------------------------------------
(* What the environment supplies *)

KnownStores == {"steam", "epic", "gog", "prime"}

\* store arguments job_async is called with: " GOG" is "gog" before
\* normalisation and "xbox" is a store the job does not know
JobArgs == {"steam", "epic", " GOG", "prime", "xbox"}

\* (store or "").strip().lower()
StoreNorm(arg) == IF arg = " GOG" THEN "gog" ELSE arg

\* the limit job_async passes to the Publisher for each store
PostLimit(st) ==
    IF st = "steam" THEN POST_LIMIT
    ELSE IF st = "epic" THEN 2
    ELSE IF st = "gog" THEN 3
    ELSE 1

SteamFree == Cand("steam", "10", "free_to_keep", "Portal", "s/app/10", EndZ(5))
EpicFree == Cand("epic", "e1", "free_to_keep", "Celeste", "e/p/celeste", EndZ(1))
GogFree == Cand("gog", "g1", "free_to_keep", "Fez", "g/game/fez", EndOffset(0 - 8))
PrimeLink == Cand("prime", "p/a-b", "free_to_keep", "Prime Gaming", "p/a-b", EndNull)

\* the candidate lists the fetcher of a store may return in one run:
\* fetch_itad_steam() + fetch_itad_steam_hot_deals(), fetch_epic(),
\* fetch_itad_gog(), fetch_prime_blog()
Upstream(st) ==
    IF st = "steam" THEN {<<>>, <<SteamFree>>}
    ELSE IF st = "epic" THEN {<<EpicFree>>}
    ELSE IF st = "gog" THEN {<<GogFree>>}
    ELSE {<<PrimeLink>>}

\* backfill_defaults: empty store -> 'steam', empty kind -> 'free_to_keep'
backfill_defaults(db) ==
    [i \in DOMAIN db |->
        [db[i] EXCEPT !.store = IF @ \in {NULL, ""} THEN "steam" ELSE @,
                      !.kind = IF @ \in {NULL, ""} THEN "free_to_keep" ELSE @]]

EmptyTable == [i \in {} |-> 0]

TableOf(rows) == [i \in {deal_id(r.store, r.external_id, r.url) : r \in rows} |->
                    CHOOSE r \in rows : deal_id(r.store, r.external_id, r.url) = i]

\* the deals file the process finds at start: empty, or rows left by earlier
\* runs of the service (some already posted, one written before the kind
\* column existed)
PersistedTables ==
    {EmptyTable,
     TableOf({Row("gog", "g1", "free_to_keep", "Fez", "g/game/fez", EndOffset(0 - 8), 1, 0 - 10),
              Row("epic", "e9", "", "Hades", "e/p/hades", EndNaive(0 - 9), 0, 0 - 20),
              Row("steam", "", "hot_deal", "Portal -80%", "s/app/10", EndBad, 0, 0 - 20),
              Row("prime", "p/old", "free_to_keep", "Prime Gaming", "p/old", EndEmpty, 0, 0 - 30)})}

----------------------------------------------------------------------------
(* Return values *)

\* rows and limit are not part of any return value: rows keeps the local
\* `rows` of the Publisher pass that ended and limit the limit it was called
\* with, for the claims that speak of the selection; keep_days is the
\* argument of the sweep that ended, min_cut and keep the arguments of the
\* hot-deal fetch that ended, ends_at the argument of the expiry helpers
\* whose outcomes are active, recent and label, and slow_limit the argument
\* of the Steam free fetch that ended and heads the number of
\* redirect-following requests it made
NoRet == [op |-> "none", store |-> "", status |-> "", error |-> "",
          fetched |-> 0, new |-> 0, posted |-> 0, queued |-> 0,
          reason |-> "", deleted |-> 0, rows |-> <<>>, limit |-> 0,
          keep_days |-> 0, min_cut |-> 0, keep |-> 0, ends_at |-> [form |-> "null", day |-> 0],
          active |-> "", recent |-> "", label |-> [kind |-> "none", n |-> 0],
          slow_limit |-> 0, heads |-> 0]

\* {"store": st, "fetched": len(deals), "new": new_items, "tg": tg}
JobOk(st, fetched, new, posted, queued, reason, rows) ==
    [NoRet EXCEPT !.op = "job_async", !.store = st, !.status = "ok",
                  !.fetched = fetched, !.new = new, !.posted = posted,
                  !.queued = queued, !.reason = reason, !.rows = rows]

\* {"store": store, "error": str(e)}
JobError(store, e) ==
    [NoRet EXCEPT !.op = "job_async", !.store = store, !.status = "error",
                  !.error = e]

----------------------------------------------------------------------------
(* State *)

\* a run that has just entered `async with JOB_LOCK`; batch is its local
\* list `deals` once the fetch has returned
Entered(arg) == [pc |-> "fetch", store |-> arg, batch |-> <<>>, new_items |-> 0]

TypeOK ==
    /\ \A i \in DOMAIN deals : deals[i].posted \in {0, 1}
    /\ now \in 0..MaxNow
    /\ bot \in BOOLEAN
    /\ lock \in BOOLEAN
    /\ \A k \in 1..Len(running) : running[k].pc \in {"fetch", "publish"}
    /\ waiting \in 0..MaxWaiting
    /\ fresh \in BOOLEAN

Init ==
    /\ deals \in {backfill_defaults(t) : t \in PersistedTables}
    /\ now = 0
    /\ bot \in BOOLEAN
    /\ lock = FALSE
    /\ running = <<>>
    /\ waiting = 0
    /\ ret = NoRet
    /\ inp = <<>>
    /\ fresh = FALSE

----------------------------------------------------------------------------
(* job_async *)

\* an acquire that never waits
LockAlwaysFree == TRUE

\* asyncio.Lock.acquire: the lock is taken at once iff nobody holds it
LockFree == ~lock

\* async with JOB_LOCK, entry with the lock free: the run takes it
JobStart(arg) ==
    /\ LockFree
    /\ lock' = TRUE
    /\ running' = Append(running, Entered(arg))
    /\ ret' = NoRet
    /\ UNCHANGED <<deals, now, bot, waiting, inp, fresh>>

\* async with JOB_LOCK, entry with the lock held: the run is suspended
JobWait ==
    /\ ~LockFree
    /\ waiting < MaxWaiting
    /\ waiting' = waiting + 1
    /\ ret' = NoRet
    /\ UNCHANGED <<deals, now, bot, lock, running, inp, fresh>>

Without(q, k) == [j \in 1..(Len(q) - 1) |-> IF j < k THEN q[j] ELSE q[j + 1]]

\* an exit that frees the lock and drops the runs queued on it
ReleaseSkip(k) ==
    /\ lock' = FALSE
    /\ running' = Without(running, k)
    /\ waiting' = 0
    /\ fresh' = FALSE

\* async with JOB_LOCK, exit of run k: asyncio.Lock.release wakes the oldest
\* waiter, which then holds the lock and runs
Release(k) ==
    /\ IF waiting = 0
       THEN /\ lock' = FALSE
            /\ running' = Without(running, k)
            /\ UNCHANGED waiting
       ELSE /\ lock' = TRUE
            /\ \E arg \in JobArgs :
                 running' = Append(Without(running, k), Entered(arg))
            /\ waiting' = waiting - 1
    /\ fresh' = FALSE

\* a failing fetch that leaves the run with the lock still held
JobFetchFailsKeepsLock(k) ==
    /\ running[k].pc = "fetch"
    /\ StoreNorm(running[k].store) \in KnownStores
    /\ ret' = JobError(running[k].store, "HTTPError")
    /\ running' = Without(running, k)
    /\ fresh' = FALSE
    /\ UNCHANGED <<deals, now, bot, lock, waiting, inp>>

\* fetch raised: caught by `except Exception`, the run returns {store, error}
JobFetchFails(k) ==
    /\ running[k].pc = "fetch"
    /\ StoreNorm(running[k].store) \in KnownStores
    /\ ret' = JobError(running[k].store, "HTTPError")
    /\ Release(k)
    /\ UNCHANGED <<deals, now, bot, inp>>

\* deals = fetch...(); new_items = save_deals(deals)
JobFetchSave(k) ==
    /\ running[k].pc = "fetch"
    /\ StoreNorm(running[k].store) \in KnownStores
    /\ \E batch \in Upstream(StoreNorm(running[k].store)) :
         LET s == save_deals(deals, batch, now)
         IN  /\ deals' = s.db
             /\ running' = [running EXCEPT ![k] =
                              [@ EXCEPT !.pc = "publish", !.batch = batch,
                                        !.new_items = s.new_items]]
    /\ ret' = NoRet
    /\ UNCHANGED <<now, bot, lock, waiting, inp, fresh>>

\* the else branch: no fetch, no save, no Publisher pass
JobUnknownStore(k) ==
    /\ running[k].pc = "fetch"
    /\ StoreNorm(running[k].store) \notin KnownStores
    /\ ret' = JobOk(StoreNorm(running[k].store), 0, 0, 0, 0, "unknown store", <<>>)
    /\ Release(k)
    /\ UNCHANGED <<deals, now, bot, inp>>

\* tg = await post_unposted_to_telegram(limit, store); return / except
JobPublish(k) ==
    /\ running[k].pc = "publish"
    /\ LET st == StoreNorm(running[k].store)
       IN  \E o \in post_unposted_to_telegram(deals, PostLimit(st), st, bot) :
             /\ deals' = o.db
             /\ ret' = IF o.raised THEN [JobError(running[k].store, o.reason)
                                           EXCEPT !.rows = o.rows]
                       ELSE JobOk(st, Len(running[k].batch), running[k].new_items,
                                  o.posted, o.queued, o.reason, o.rows)
    /\ Release(k)
    /\ UNCHANGED <<now, bot, inp>>

----------------------------------------------------------------------------
(* /post_last *)

PostLastNs == 0..MaxN

\* SELECT id FROM deals ORDER BY created_at DESC LIMIT n;
\* UPDATE deals SET posted=0 for each; commit;
\* tg = await post_unposted_to_telegram(limit=n): no store filter, no lock.
\* The endpoint does not catch an exception of the pass; the commit is done
\* by then.  Nothing suspends between the commit and the end of the pass.
post_last(n) ==
    /\ \E ids \in {SeqSet(q) : q \in OrderByLimit(
                        {<<0, 0 - deals[i].created_at, i>> : i \in DOMAIN deals}, n)} :
         LET reset == [i \in DOMAIN deals |->
                         IF i \in ids THEN [deals[i] EXCEPT !.posted = 0]
                         ELSE deals[i]]
         IN  \E o \in post_unposted_to_telegram(reset, n, NULL, bot) :
               /\ deals' = o.db
               /\ ret' = IF o.raised
                         THEN [NoRet EXCEPT !.op = "post_last", !.status = "raised",
                                            !.error = o.reason]
                         ELSE [NoRet EXCEPT !.op = "post_last", !.status = "ok",
                                            !.posted = o.posted, !.queued = o.queued,
                                            !.reason = o.reason]
    /\ UNCHANGED <<now, bot, lock, running, waiting, inp, fresh>>

----------------------------------------------------------------------------
(* The retention sweep, the clock, restarts *)

\* cleanup_job (keep_days = 7) and /cleanup with its default
Cleanup ==
    /\ LET c == cleanup_expired(deals, KEEP_DAYS, now)
       IN  /\ deals' = c.db
           /\ ret' = [NoRet EXCEPT !.op = "cleanup", !.status = "ok",
                                   !.deleted = c.deleted, !.keep_days = KEEP_DAYS]
    /\ UNCHANGED <<now, bot, lock, running, waiting, inp, fresh>>

Tick ==
    /\ now < MaxNow
    /\ now' = now + 1
    /\ ret' = NoRet
    /\ UNCHANGED <<deals, bot, lock, running, waiting, inp, fresh>>

\* The process dies and starts again: every coroutine and the lock are gone,
\* the committed table stays, on_startup runs the migration and the backfill.
Restart ==
    /\ deals' = backfill_defaults(deals)
    /\ lock' = FALSE
    /\ running' = <<>>
    /\ waiting' = 0
    /\ ret' = NoRet
    /\ fresh' = TRUE
    /\ UNCHANGED <<now, bot, inp>>

----------------------------------------------------------------------------

Next ==
    \/ \E arg \in JobArgs : JobStart(arg)
    \/ JobWait
    \/ \E k \in 1..Len(running) : JobFetchFails(k)
    \/ \E k \in 1..Len(running) : JobFetchSave(k)
    \/ \E k \in 1..Len(running) : JobUnknownStore(k)
    \/ \E k \in 1..Len(running) : JobPublish(k)
    \/ \E n \in PostLastNs : post_last(n)
    \/ Cleanup
    \/ Tick
    \/ Restart

Spec == Init /\ [][Next]_vars

----------------------------------------------------------------------------
(* save_deals called directly on bounded candidate lists *)

SaveCands ==
    {Cand("gog", "g1", "free_to_keep", "Fez", "g/game/fez", EndOffset(0 - 8)),
     Cand("gog", NULL, "hot_deal", "Fez GOTY", "g/game/fez", EndNull),
     Cand("steam", "10", "free_weekend", "Fez", "g/game/fez", EndNull),
     Cand("gog", "g4", "free_to_keep", "Linkless", NULL, EndNull)}

RECURSIVE SeqsUpTo(_, _)
SeqsUpTo(S, n) ==
    IF n = 0 THEN {<<>>}
    ELSE SeqsUpTo(S, n - 1) \cup
         {Append(q, x) : q \in {p \in SeqsUpTo(S, n - 1) : Len(p) = n - 1}, x \in S}

SaveCall(batch) ==
    /\ LET s == save_deals(deals, batch, now)
       IN  /\ deals' = s.db
           /\ ret' = [NoRet EXCEPT !.op = "save_deals", !.status = "ok",
                                   !.new = s.new_items]
    /\ inp' = batch
    /\ UNCHANGED <<now, bot, lock, running, waiting, fresh>>

NextSave ==
    \/ \E batch \in SeqsUpTo(SaveCands, MaxBatch) : SaveCall(batch)
    \/ Tick

SpecSave == Init /\ [][NextSave]_vars

----------------------------------------------------------------------------
(* Claims *)

\* the rows stored for the (store, url) of candidate c
RowsFor(db, c) ==
    {i \in DOMAIN db : db[i].store = OrEmpty(c.store) /\ db[i].url = OrEmpty(c.url)}

Keyed(batch) == {k \in 1..Len(batch) : OrEmpty(batch[k].url) # ""}

\* C1: a save_deals call leaves exactly one row for the (store, url) of every
\* candidate that has a url; a row that was already stored for that (store, url)
\* is left as it was (posted, created_at and every other column), whatever the
\* candidate's external_id, title or kind; and when every such candidate was
\* already stored the table is unchanged and the call returns 0.
C1_UpsertIdempotent ==
    [][ret'.op = "save_deals" =>
        /\ \A k \in Keyed(inp') :
             /\ Cardinality(RowsFor(deals', inp'[k])) = 1
             /\ \A i \in RowsFor(deals, inp'[k]) :
                  i \in DOMAIN deals' /\ deals'[i] = deals[i]
        /\ (\A k \in Keyed(inp') : RowsFor(deals, inp'[k]) # {})
             => deals' = deals /\ ret'.new = 0]_vars

\* a call has just met a posted row with a candidate of the same (store, url)
\* and another external_id, title and kind, and returned 0
C1_Witness ==
    /\ ret.op = "save_deals"
    /\ ret.new = 0
    /\ \E k \in Keyed(inp) : \E i \in RowsFor(deals, inp[k]) :
         /\ deals[i].posted = 1
         /\ deals[i].created_at < now
         /\ deals[i].kind # inp[k].kind
         /\ deals[i].title # inp[k].title
         /\ deals[i].external_id # OrEmpty(inp[k].external_id)

----------------------------------------------------------------------------
(* Steps, as seen from the state before and after *)

\* the Publisher pass of a job run ends in this step
JobPassStep ==
    /\ Len(running) = 1
    /\ running[1].pc = "publish"
    /\ ret'.op = "job_async"

\* post_last runs in this step
PostLastStep == ret'.op = "post_last"

\* the process restarts in this step
RestartStep ==
    /\ fresh' /\ ret' = NoRet /\ now' = now
    /\ running' = <<>> /\ waiting' = 0 /\ ~lock'

SomeRowUnposted == \E i \in DOMAIN deals \cap DOMAIN deals' :
                      deals[i].posted = 1 /\ deals'[i].posted = 0

Min(a, b) == IF a < b THEN a ELSE b

\* C2 as stated: no step of any operation, post_last included, takes the
\* posted flag of a stored row from 1 back to 0.
C2_PostedNeverReset == [][~SomeRowUnposted]_vars

\* C2 amended: the posted flag of a stored row goes from 1 back to 0 only in
\* a post_last call (its UPDATE ... SET posted=0); no step of a job run, of
\* its Publisher pass, of the retention sweep or of a restart resets it.
C2_OnlyPostLastResets == [][SomeRowUnposted => PostLastStep]_vars

\* a job run has just fetched and saved a candidate of its store whose row is
\* stored with posted = 1, and the flag is still 1
C2_Witness ==
    /\ ret.op = "job_async" /\ ret.status = "ok"
    /\ ret.fetched > 0 /\ ret.new = 0
    /\ \E i \in DOMAIN deals : deals[i].posted = 1 /\ deals[i].store = ret.store

\* C4 as stated: with the bot configured, the Publisher pass of a job run
\* with limit L over N selectable unposted rows sends min(L, N) rows, reports
\* them as posted and leaves exactly those rows with posted = 1.
C4_PassPostsMin ==
    [][JobPassStep /\ bot =>
        LET st == StoreNorm(running[1].store)
            m == Min(PostLimit(st), Cardinality(Unposted(deals, st)))
        IN  /\ ret'.status = "ok"
            /\ ret'.posted = m
            /\ Cardinality({i \in Unposted(deals, st) : deals'[i].posted = 1}) = m]_vars

RepeatedRun ==
    /\ Len(running) = 1
    /\ running[1].pc = "publish"
    /\ running[1].batch # <<>>
    /\ running[1].new_items = 0
    /\ \A j \in Keyed(running[1].batch) :
         \A i \in RowsFor(deals, running[1].batch[j]) : deals[i].created_at >= 0

\* C8 as stated: a job run that repeats an earlier run on unchanged upstream
\* data reports new = 0, leaves the table as it was and posts nothing again.
C8_RepeatedRunIsNoOp ==
    [][RepeatedRun /\ ret'.op = "job_async" =>
        /\ ret'.status = "ok"
        /\ ret'.new = 0
        /\ ret'.posted = 0
        /\ deals' = deals]_vars

\* C9 as stated: a restart removes no row and changes no posted flag, and
\* the first run to end after it selects no row with posted = 1 and exactly
\* the rows with posted = 0.
C9_RestartSelectsAllUnposted ==
    [][/\ RestartStep =>
            /\ DOMAIN deals' = DOMAIN deals
            /\ \A i \in DOMAIN deals : deals'[i].posted = deals[i].posted
       /\ fresh /\ JobPassStep /\ bot =>
            SeqSet(ret'.rows) = {i \in DOMAIN deals : deals[i].posted = 0}]_vars

\* C9 amended: a restart removes no row and changes no posted flag, and the
\* first run to end after it selects no row with posted = 1 and, up to the
\* limit of its store, the rows with posted = 0 that are of its store and of
\* a free kind.
C9_RestartKeepsQueue ==
    [][/\ RestartStep =>
            /\ DOMAIN deals' = DOMAIN deals
            /\ \A i \in DOMAIN deals : deals'[i].posted = deals[i].posted
       /\ fresh /\ JobPassStep /\ bot =>
            LET st == StoreNorm(running[1].store)
                due == {i \in DOMAIN deals : /\ deals[i].posted = 0
                                             /\ deals[i].store = st
                                             /\ deals[i].kind \in FreeKinds}
            IN  /\ SeqSet(ret'.rows) \subseteq due
                /\ Cardinality(SeqSet(ret'.rows)) = Len(ret'.rows)
                /\ Len(ret'.rows) = Min(PostLimit(st), Cardinality(due))]_vars

\* the process has restarted while rows were due, and the first run since is
\* about to select among them; the table also holds a posted row and an
\* unposted row of a kind that is not posted
C9_Witness ==
    /\ fresh /\ bot
    /\ Len(running) = 1 /\ running[1].pc = "publish"
    /\ Unposted(deals, StoreNorm(running[1].store)) # {}
    /\ \E i \in DOMAIN deals : deals[i].posted = 1
    /\ \E i \in DOMAIN deals : deals[i].posted = 0 /\ deals[i].kind \notin FreeKinds

\* C10: when the fetch of a job run raises, job_async returns {store, error},
\* the table is as it was and no row was selected for sending; the lock is
\* free again, or held by the run that waited for it, and at all times the
\* lock is held only while a run is inside it.
C10_FetchFailureContained ==
    /\ [](lock <=> Len(running) = 1)
    /\ [][ret'.op = "job_async" /\ ret'.error = "HTTPError" =>
            /\ ret'.status = "error"
            /\ ret'.store = running[1].store
            /\ ret'.rows = <<>>
            /\ deals' = deals
            /\ IF waiting = 0
               THEN ~lock' /\ running' = <<>>
               ELSE /\ lock'
                    /\ \E arg \in JobArgs : running' = <<Entered(arg)>>
                    /\ waiting' = waiting - 1]_vars

\* a run whose fetch failed has just returned its error over a table that
\* holds unposted rows, and the lock is free
C10_Witness ==
    /\ ret.op = "job_async" /\ ret.status = "error" /\ ret.error = "HTTPError"
    /\ ~lock /\ running = <<>>
    /\ \E i \in DOMAIN deals : deals[i].posted = 0

----------------------------------------------------------------------------
(* Fetch failures *)

\* C11 as stated: a failing fetch yields an empty candidate list and the run
\* goes on through save_deals and the Publisher, so every job_async call for
\* a known store returns from its Publisher pass and none returns the error
\* of the fetch.
C11_FetchFailureYieldsEmpty ==
    [][/\ ret'.op = "job_async"
       /\ Len(running) = 1
       /\ StoreNorm(running[1].store) \in KnownStores
       => running[1].pc = "publish" /\ ret'.error # "HTTPError"]_vars

----------------------------------------------------------------------------
(* The Publisher called directly on bounded tables *)

MaxLimit == 2       \* largest limit of a direct Publisher call

\* UPDATE deals SET posted=1 WHERE id=?
mark_posted(db, did) ==
    [i \in DOMAIN db |-> IF i = did THEN [db[i] EXCEPT !.posted = 1] ELSE db[i]]

\* rows of two stores and three kinds; the two free_weekend rows share their
\* created_at and are older than the unposted steam free_to_keep row, the
\* hot_deal row is older than all three
PubRows ==
    {Row("steam", "1", "free_weekend", "Trial", "s/app/1", EndZ(2), 0, 0 - 3),
     Row("steam", "2", "free_to_keep", "Portal", "s/app/2", EndZ(5), 0, 0 - 2),
     Row("steam", "3", "free_weekend", "Braid", "s/app/3", EndNull, 0, 0 - 3),
     Row("steam", "", "hot_deal", "Limbo -90%", "s/app/4", EndNull, 0, 0 - 4),
     Row("epic", "e5", "free_to_keep", "Celeste", "e/p/celeste", EndZ(3), 0, 0 - 5),
     Row("steam", "6", "free_to_keep", "Fez", "s/app/6", EndNull, 1, 0 - 6)}

\* the store filters a pass is called with: none, "" and the stores
PubStores == {NULL, "", "steam", "epic"}

InitPublish ==
    /\ deals \in {TableOf(S) : S \in SUBSET PubRows}
    /\ now = 0
    /\ bot \in BOOLEAN
    /\ lock = FALSE
    /\ running = <<>>
    /\ waiting = 0
    /\ ret = NoRet
    /\ inp = <<>>
    /\ fresh = FALSE

\* await post_unposted_to_telegram(limit, store), called on its own
PublisherCall(limit, store) ==
    /\ \E o \in post_unposted_to_telegram(deals, limit, store, bot) :
         /\ deals' = o.db
         /\ ret' = [NoRet EXCEPT !.op = "publisher", !.store = store,
                                 !.status = IF o.raised THEN "raised" ELSE "ok",
                                 !.error = IF o.raised THEN o.reason ELSE "",
                                 !.posted = o.posted, !.queued = o.queued,
                                 !.reason = IF o.raised THEN "" ELSE o.reason,
                                 !.rows = o.rows, !.limit = limit]
    /\ UNCHANGED <<now, bot, lock, running, waiting, inp, fresh>>

\* the statement UPDATE deals SET posted=1 WHERE id=?; commit, executed on
\* its own for the id of a stored row
MarkPostedCall(did) ==
    /\ deals' = mark_posted(deals, did)
    /\ ret' = [NoRet EXCEPT !.op = "mark_posted", !.status = "ok",
                            !.rows = <<did>>]
    /\ UNCHANGED <<now, bot, lock, running, waiting, inp, fresh>>

NextPublish ==
    \/ \E limit \in 0..MaxLimit, store \in PubStores : PublisherCall(limit, store)
    \/ \E did \in DOMAIN deals : MarkPostedCall(did)

SpecPublish == InitPublish /\ [][NextPublish]_vars

\* the stored rows a pass with this store filter may take
Eligible(db, store) ==
    {i \in DOMAIN db : /\ db[i].posted = 0
                       /\ db[i].kind \in {"free_to_keep", "free_weekend"}
                       /\ (store \in {NULL, ""} \/ db[i].store = store)}

\* row i does not come after row j in the Publisher's order
NotAfter(db, i, j) ==
    LET rank(x) == IF db[x].kind = "free_to_keep" THEN 0 ELSE 1
    IN  rank(i) < rank(j) \/ (rank(i) = rank(j) /\ db[i].created_at <= db[j].created_at)

\* C12: the rows a Publisher pass selects are min(limit, N) distinct rows out
\* of the N stored rows with posted = 0, of kind free_to_keep or free_weekend
\* and of the store asked for; they come in the order free_to_keep before
\* free_weekend, then created_at ascending, and no eligible row left out
\* comes before a selected one; no hot_deal row is selected, and no step
\* changes the posted flag of a hot_deal row except the UPDATE called on it.
C12_BatchIsFirstLimit ==
    [][/\ ret'.op = "publisher" /\ bot =>
            LET rows == ret'.rows
                E == Eligible(deals, ret'.store)
            IN  /\ SeqSet(rows) \subseteq E
                /\ Cardinality(SeqSet(rows)) = Len(rows)
                /\ Len(rows) = Min(ret'.limit, Cardinality(E))
                /\ \A j, k \in 1..Len(rows) : j < k => NotAfter(deals, rows[j], rows[k])
                /\ \A i \in E \ SeqSet(rows) :
                     \A j \in 1..Len(rows) : NotAfter(deals, rows[j], i)
                /\ \A j \in 1..Len(rows) : deals[rows[j]].kind # "hot_deal"
       /\ ret'.op # "mark_posted" =>
            \A i \in DOMAIN deals : deals[i].kind = "hot_deal" =>
                i \in DOMAIN deals' /\ deals'[i].posted = deals[i].posted]_vars

\* a pass with a store filter and limit 2 has just selected two rows, a
\* free_to_keep row first and an older free_weekend row second; an eligible
\* row of the store was left out, and the table holds an unposted hot_deal
\* row older than every selected row, a posted row, and a row of another store
C12_Witness ==
    /\ ret.op = "publisher" /\ ret.store = "steam" /\ ret.limit = 2
    /\ Len(ret.rows) = 2
    /\ deals[ret.rows[1]].kind = "free_to_keep"
    /\ deals[ret.rows[2]].kind = "free_weekend"
    /\ deals[ret.rows[2]].created_at < deals[ret.rows[1]].created_at
    /\ Eligible(deals, "steam") \ SeqSet(ret.rows) # {}
    /\ \E i \in DOMAIN deals :
         /\ deals[i].kind = "hot_deal" /\ deals[i].posted = 0
         /\ \A j \in 1..2 : deals[i].created_at < deals[ret.rows[j]].created_at
    /\ \E i \in DOMAIN deals : deals[i].posted = 1
    /\ \E i \in DOMAIN deals : deals[i].store = "epic"

----------------------------------------------------------------------------
(* Job runs that keep being scheduled *)

\* The scheduler triggers a run of every store again and again
\* (add_job(..., "interval", ...) per store in on_startup), no run waits on
\* the lock, the bot is configured, and a run that is inside the lock goes
\* on: its fetch succeeds again and again and its Publisher pass is made.
\* Nobody calls /post_last and the process is not restarted.
InitFair == Init /\ bot

NextFair ==
    \/ \E arg \in JobArgs : JobStart(arg)
    \/ \E k \in 1..Len(running) : JobFetchFails(k)
    \/ \E k \in 1..Len(running) : JobFetchSave(k)
    \/ \E k \in 1..Len(running) : JobUnknownStore(k)
    \/ \E k \in 1..Len(running) : JobPublish(k)
    \/ Cleanup
    \/ Tick

Fairness ==
    /\ \A arg \in JobArgs : SF_vars(JobStart(arg))
    /\ SF_vars(\E k \in 1..Len(running) : JobFetchSave(k))
    /\ WF_vars(\E k \in 1..Len(running) : JobUnknownStore(k))
    /\ WF_vars(\E k \in 1..Len(running) : JobPublish(k))

SpecFair == InitFair /\ [][NextFair]_vars /\ Fairness

\* the ids a stored row can have
AllIds ==
    UNION {DOMAIN t : t \in PersistedTables} \cup
    {deal_id(c.store, c.external_id, c.url) :
        c \in UNION {SeqSet(b) : b \in UNION {Upstream(st) : st \in KnownStores}}}

\* C13 as stated: while runs of every store keep being scheduled and the
\* bot is configured, every stored row of a free kind with posted = 0 is
\* eventually marked posted, or deleted by the sweep.
C13_EventualPosting ==
    \A i \in AllIds :
        (i \in DOMAIN deals /\ deals[i].posted = 0 /\ deals[i].kind \in FreeKinds)
            ~> (i \notin DOMAIN deals \/ deals[i].posted = 1)

\* the stored rows of a free kind that pass the store filter, posted or not
Matching(db, store) ==
    {i \in DOMAIN db : /\ db[i].kind \in {"free_to_keep", "free_weekend"}
                       /\ (store \in {NULL, ""} \/ db[i].store = store)}

\* C15: a Publisher pass selects no row whose posted flag is 1 and leaves
\* every such row as it is; when every row matching its kind and store
\* filter is posted it returns queued = 0 and posted = 0 without raising and
\* the table is unchanged; and the UPDATE posted=1 executed on a row that is
\* already posted leaves the table unchanged, as does executing it a second
\* time on any row.
C15_PostedRowsLeftAlone ==
    [][/\ ret'.op = "publisher" /\ bot =>
            /\ \A j \in 1..Len(ret'.rows) : deals[ret'.rows[j]].posted = 0
            /\ \A i \in DOMAIN deals : deals[i].posted = 1 =>
                 i \in DOMAIN deals' /\ deals'[i] = deals[i]
            /\ (\A i \in Matching(deals, ret'.store) : deals[i].posted = 1) =>
                 /\ ret'.status = "ok"
                 /\ ret'.queued = 0 /\ ret'.posted = 0 /\ ret'.rows = <<>>
                 /\ deals' = deals
       /\ ret'.op = "mark_posted" =>
            LET did == ret'.rows[1]
            IN  /\ ret'.status = "ok"
                /\ deals[did].posted = 1 => deals' = deals
                /\ deals'[did].posted = 1
                /\ mark_posted(deals', did) = deals']_vars

\* a pass over the steam rows has just returned queued = 0 and posted = 0:
\* the table holds several steam rows of a free kind, every one of them
\* posted (one by an UPDATE executed earlier), and an unposted hot_deal row
C15_Witness ==
    /\ ret.op = "publisher" /\ bot /\ ret.store = "steam" /\ ret.limit > 0
    /\ ret.status = "ok" /\ ret.queued = 0 /\ ret.posted = 0
    /\ Cardinality(Matching(deals, "steam")) >= 2
    /\ \A i \in Matching(deals, "steam") : deals[i].posted = 1
    /\ \E i \in Matching(deals, "steam") : deals[i].kind = "free_weekend"
    /\ \E i \in DOMAIN deals : deals[i].kind = "hot_deal" /\ deals[i].posted = 0

----------------------------------------------------------------------------
(* The count save_deals returns *)

\* the (store, url) pairs of the candidates of a batch that have a url
KeysOf(batch) == {<<OrEmpty(batch[k].store), OrEmpty(batch[k].url)>> : k \in Keyed(batch)}

StoredKeys(db) == {<<db[i].store, db[i].url>> : i \in DOMAIN db}

\* C16: save_deals returns the number of rows the call added, table size
\* after minus size before, which is the number of distinct (store, url)
\* pairs among its candidates with a url that were not yet stored; it
\* removes no row, and a candidate without a url adds no row and is not
\* counted.
C16_ReturnsRowsAdded ==
    [][ret'.op = "save_deals" =>
        /\ DOMAIN deals \subseteq DOMAIN deals'
        /\ ret'.new = Cardinality(DOMAIN deals') - Cardinality(DOMAIN deals)
        /\ ret'.new = Cardinality(KeysOf(inp') \ StoredKeys(deals))
        /\ \A i \in DOMAIN deals' \ DOMAIN deals : deals'[i].url # ""
        /\ (Keyed(inp') = {}) => (ret'.new = 0 /\ deals' = deals)]_vars

\* a call with two candidates of one (store, url) that differ in title and
\* kind has just added one row and returned 1
C16_Witness ==
    /\ ret.op = "save_deals" /\ ret.new = 1
    /\ Len(inp) = 2 /\ Keyed(inp) = {1, 2}
    /\ Cardinality(KeysOf(inp)) = 1
    /\ inp[1].title # inp[2].title /\ inp[1].kind # inp[2].kind
    /\ \E i \in RowsFor(deals, inp[1]) :
         deals[i].title = inp[1].title /\ deals[i].created_at = now

----------------------------------------------------------------------------
(* cleanup_expired called directly on bounded tables *)

\* rows that ended 8, 7 and 6 days before day 0, a row that ends later, and
\* rows whose ends_at has no zone, is not a date, is empty or is NULL
SweepRows ==
    {Row("steam", "1", "free_to_keep", "A", "s/app/1", EndZ(0 - 8), 1, 0 - 30),
     Row("steam", "2", "free_weekend", "B", "s/app/2", EndOffset(0 - 7), 0, 0 - 30),
     Row("epic", "e3", "free_to_keep", "C", "e/p/c", EndZ(0 - 6), 1, 0 - 20),
     Row("epic", "e4", "free_to_keep", "D", "e/p/d", EndNaive(0 - 9), 0, 0 - 20),
     Row("steam", "", "hot_deal", "E", "s/app/5", EndBad, 0, 0 - 40),
     Row("prime", "", "free_to_keep", "F", "p/f", EndNull, 0, 0 - 40),
     Row("gog", "g7", "free_to_keep", "G", "g/game/g", EndZ(3), 0, 0 - 1)}

\* keep_days of cleanup_job and of /cleanup
SweepKeepDays == {0, 1, KEEP_DAYS}

InitSweep ==
    /\ deals \in {TableOf(S) : S \in SUBSET SweepRows}
    /\ now = 0
    /\ bot = FALSE
    /\ lock = FALSE
    /\ running = <<>>
    /\ waiting = 0
    /\ ret = NoRet
    /\ inp = <<>>
    /\ fresh = FALSE

\* deleted = cleanup_expired(keep_days=keep_days)
CleanupCall(keep_days) ==
    /\ LET c == cleanup_expired(deals, keep_days, now)
       IN  /\ deals' = c.db
           /\ ret' = [NoRet EXCEPT !.op = "cleanup", !.status = "ok",
                                   !.deleted = c.deleted, !.keep_days = keep_days]
    /\ UNCHANGED <<now, bot, lock, running, waiting, inp, fresh>>

NextSweep ==
    \/ \E keep_days \in SweepKeepDays : CleanupCall(keep_days)
    \/ Tick

SpecSweep == InitSweep /\ [][NextSweep]_vars

\* ends_at is a timestamp with a zone: it denotes an instant
IsInstant(e) == e.form \in {"z", "offset"}

\* C17: cleanup_expired(keep_days) deletes exactly the rows whose ends_at
\* denotes an instant (a timestamp with a zone) strictly earlier than now
\* minus keep_days, leaves every other row as it was and returns the number
\* of rows deleted; with keep_days = 7 a row that ended 8 days ago is deleted
\* and a row that ended 7 or 6 days ago is kept.
C17_SweepDeletesExactlyExpired ==
    [][ret'.op = "cleanup" =>
        LET keep == ret'.keep_days
            gone == {i \in DOMAIN deals :
                       IsInstant(deals[i].ends_at) /\ deals[i].ends_at.day < now - keep}
        IN  /\ DOMAIN deals' = DOMAIN deals \ gone
            /\ \A i \in DOMAIN deals' : deals'[i] = deals[i]
            /\ ret'.deleted = Cardinality(gone)
            /\ keep = 7 =>
                 \A i \in DOMAIN deals : IsInstant(deals[i].ends_at) =>
                    /\ deals[i].ends_at.day = now - 8 => i \notin DOMAIN deals'
                    /\ deals[i].ends_at.day \in {now - 7, now - 6} => i \in DOMAIN deals']_vars

\* a sweep with keep_days = 7 has just deleted one row; the rows that ended
\* exactly 7 and 6 days ago are still stored, as are rows whose ends_at is
\* zone-less, not a date or NULL
C17_Witness ==
    /\ ret.op = "cleanup" /\ ret.keep_days = 7 /\ ret.deleted = 1
    /\ \E i \in DOMAIN deals : IsInstant(deals[i].ends_at) /\ deals[i].ends_at.day = now - 7
    /\ \E i \in DOMAIN deals : IsInstant(deals[i].ends_at) /\ deals[i].ends_at.day = now - 6
    /\ \E i \in DOMAIN deals : deals[i].ends_at.form = "naive"
    /\ \E i \in DOMAIN deals : deals[i].ends_at.form = "bad"
    /\ \E i \in DOMAIN deals : deals[i].ends_at.form = "null"

----------------------------------------------------------------------------
(* Rows without an end *)

Undated(e) == e.form \in {"null", "empty", "bad"}

\* C18: a stored row whose ends_at is NULL, empty or not a date is removed
\* by no step of a job run, a Publisher pass, post_last, the sweep or a
\* restart, and no step changes its ends_at, however old its created_at is.
C18_UndatedNeverRemoved ==
    [][\A i \in DOMAIN deals : Undated(deals[i].ends_at) =>
          /\ i \in DOMAIN deals'
          /\ deals'[i].ends_at = deals[i].ends_at]_vars

\* a sweep has just deleted a row while rows created more than KEEP_DAYS
\* before it whose ends_at is empty and not a date, and a row whose ends_at
\* is NULL, are still stored
C18_Witness ==
    /\ ret.op = "cleanup" /\ ret.deleted > 0
    /\ \E i \in DOMAIN deals :
         deals[i].ends_at.form = "empty" /\ deals[i].created_at < now - KEEP_DAYS
    /\ \E i \in DOMAIN deals :
         deals[i].ends_at.form = "bad" /\ deals[i].created_at < now - KEEP_DAYS
    /\ \E i \in DOMAIN deals : deals[i].ends_at.form = "null"

----------------------------------------------------------------------------
(* Expiry classification: is_active_end, is_expired_recent, time_left_label *)

MaxDay == 9         \* ends_at values run over the days -MaxDay..MaxDay

\* dt > datetime.now(timezone.utc): comparing a zone-less datetime with a
\* zone-aware one raises TypeError, which the helper does not catch
is_active_end(ends_at, t) ==
    LET dt == parse_iso_utc(ends_at)
    IN  IF ~dt.ok THEN "true"
        ELSE IF ~dt.aware THEN "TypeError"
        ELSE IF dt.day > t THEN "true" ELSE "false"

\* (dt <= now) and (dt >= now - timedelta(days=days))
is_expired_recent(ends_at, days, t) ==
    LET dt == parse_iso_utc(ends_at)
    IN  IF ~dt.ok THEN "false"
        ELSE IF ~dt.aware THEN "TypeError"
        ELSE IF dt.day <= t /\ dt.day >= t - days THEN "true" ELSE "false"

\* None, "истекло" (expired), "осталось N дн" (days, from 48 hours on) or
\* "осталось N ч" (hours); with whole days the minutes label does not occur.
\* dt - now raises TypeError for a zone-less dt.
time_left_label(ends_at, t) ==
    LET dt == parse_iso_utc(ends_at)
        hours == 24 * (dt.day - t)
    IN  IF ~dt.ok THEN [kind |-> "none", n |-> 0]
        ELSE IF ~dt.aware THEN [kind |-> "TypeError", n |-> 0]
        ELSE IF dt.day - t <= 0 THEN [kind |-> "expired", n |-> 0]
        ELSE IF hours >= 48 THEN [kind |-> "days", n |-> hours \div 24]
        ELSE [kind |-> "hours", n |-> hours]

\* the ends_at values a stored row can hold
ExpiryInputs ==
    {EndNull, EndEmpty, EndBad} \cup
    UNION {{EndZ(d), EndOffset(d), EndNaive(d)} : d \in (0 - MaxDay)..MaxDay}

InitExpiry ==
    /\ deals = EmptyTable
    /\ now = 0
    /\ bot = FALSE
    /\ lock = FALSE
    /\ running = <<>>
    /\ waiting = 0
    /\ ret = NoRet
    /\ inp = <<>>
    /\ fresh = FALSE

\* the three helpers applied to one ends_at, as index() applies them to the
\* ends_at of a row: is_active_end, is_expired_recent(days=7), time_left_label
Classify(ends_at) ==
    /\ ret' = [NoRet EXCEPT !.op = "classify", !.ends_at = ends_at,
                            !.active = is_active_end(ends_at, now),
                            !.recent = is_expired_recent(ends_at, 7, now),
                            !.label = time_left_label(ends_at, now)]
    /\ UNCHANGED <<deals, now, bot, lock, running, waiting, inp, fresh>>

NextExpiry ==
    \/ \E ends_at \in ExpiryInputs : Classify(ends_at)
    \/ Tick

SpecExpiry == InitExpiry /\ [][NextExpiry]_vars

\* C19 as stated: is_active_end returns true exactly when ends_at is
\* missing or does not parse, or is strictly later than now; an ends_at equal
\* to now is classified expired by the three helpers (is_active_end false,
\* is_expired_recent true, label expired); no ends_at is always active.
C19_ExpiryClassification ==
    [][ret'.op = "classify" =>
        LET e == ret'.ends_at
            dt == parse_iso_utc(e)
        IN  /\ ret'.active \in {"true", "false"}
            /\ ret'.active = "true" <=> (~dt.ok \/ dt.day > now)
            /\ dt.ok /\ dt.day = now =>
                 /\ ret'.active = "false"
                 /\ ret'.recent = "true"
                 /\ ret'.label.kind = "expired"
            /\ e.form \in {"null", "empty"} => ret'.active = "true"]_vars

----------------------------------------------------------------------------
(* The Steam fetch of one polling cycle:                                   *)
(* fetch_itad_steam() + fetch_itad_steam_hot_deals(70, keep=120)           *)

MaxItems == 3       \* longest upstream item list of a cycle

MIN_CUT == 70       \* src/app.py:1325
HOT_KEEP == 120     \* src/app.py:1325
MIX_70_89 == 14     \* src/app.py:901
MIX_90_PLUS == 6    \* src/app.py:902
SLOW_LIMIT == 20    \* src/app.py:792
SCRAPE_BUDGET == 10 \* src/app.py:817

\* the `cut` of an upstream item: a JSON number, a numeric string or absent
CutInt(v) == [type |-> "int", val |-> v]
CutStr(v) == [type |-> "str", val |-> v]
CutNone == [type |-> "none", val |-> 0]

Item(title, url, cut, amount, expiry) ==
    [title |-> title, url |-> url, cut |-> cut, amount |-> amount, expiry |-> expiry]

\* what the ITAD deals list can hold: a full discount at price 0, a full
\* discount with a price left, price 0 at a 90% cut, a discounted item under
\* the url of the free one, discounts of 95%, 85% (cut sent as a string), 50%,
\* a cut of "100" sent as a string, an item with no link, one with no cut
\* a free one with no link and a free one behind an itad.link redirect
SteamItems ==
    {Item("A", "s/app/1", CutInt(100), 0, EndZ(5)),
     Item("B", "s/app/2", CutInt(100), 5, EndNull),
     Item("C", "s/app/3", CutInt(90), 0, EndNull),
     Item("D", "s/app/1", CutInt(80), 3, EndZ(2)),
     Item("E", "s/app/4", CutInt(95), 1, EndNull),
     Item("F", "s/sub/5", CutStr(85), 2, EndNull),
     Item("G", "s/app/6", CutInt(50), 5, EndNull),
     Item("H", "s/app/7", CutStr(100), 4, EndNull),
     Item("I", NULL, CutInt(75), 2, EndNull),
     Item("J", "s/app/8", CutNone, 2, EndNull),
     Item("L", NULL, CutInt(100), 0, EndNull),
     Item("M", "itad.link/a", CutInt(100), 0, EndNull)}

\* re.search(r'/app/(\d+)', url): the digits after /app/, or None
extract_steam_app_id_fast(url) ==
    CASE url = "s/app/1" -> "1"
      [] url = "s/app/2" -> "2"
      [] url = "s/app/3" -> "3"
      [] url = "s/app/4" -> "4"
      [] url = "s/app/6" -> "6"
      [] url = "s/app/7" -> "7"
      [] url = "s/app/8" -> "8"
      [] url = "s/app/9" -> "9"
      [] url = "s/app/11" -> "11"
      [] OTHER -> NULL

\* "itad.link" in url
IsOpaque(url) == url \in {"itad.link/a", "itad.link/b", "itad.link/dead"}

\* str(requests.head(url, allow_redirects=True).url); the request for
\* itad.link/dead raises and the url is kept
head_final_url(url) ==
    CASE url = "itad.link/a" -> "s/app/11"
      [] url = "itad.link/b" -> "s/sub/12"
      [] OTHER -> url

\* a candidate dict of the Steam fetchers; the free path sets no
\* discount_pct and no price_new, the hot-deal path no image_url
SteamCand(external_id, kind, title, url, ends_at, discount_pct, price_new) ==
    [store |-> "steam", external_id |-> external_id, kind |-> kind, title |-> title,
     url |-> url, ends_at |-> ends_at, discount_pct |-> discount_pct,
     price_new |-> price_new, image_url |-> NULL]

\* a free test that looks at the cut only
FreeByCutOnly(it) == it.cut.type = "int" /\ it.cut.val = 100

\* cut == 100 or price_amount == 0; a cut sent as the string "100" is not
\* equal to the number 100
FreeOffer(it) == (it.cut.type = "int" /\ it.cut.val = 100) \/ it.amount = 0

\* The loop of fetch_itad_steam.  For an accepted item whose url holds
\* "itad.link" it makes one requests.head(..., allow_redirects=True) and
\* takes the final url, or keeps the url when the request raises; heads
\* counts these requests.  slow_limit is a parameter of the function that
\* its body never reads.  The page scrape for images is made while
\* scrape_left > 0; with or without it an item with an app id gets an image
\* (the scraped one or the CDN header), an item without an app id gets none.
RECURSIVE SteamFreeLoop(_, _, _, _, _)
SteamFreeLoop(items, slow_limit, scrape_left, heads, out) ==
    IF items = <<>> THEN [out |-> out, heads |-> heads, scrape_left |-> scrape_left]
    ELSE LET it == Head(items)
             opaque == IsOpaque(it.url)
             steam_url == IF opaque THEN head_final_url(it.url) ELSE it.url
             app_id == extract_steam_app_id_fast(steam_url)
             scrape == app_id # NULL /\ scrape_left > 0
             cand == [SteamCand(OrEmpty(app_id), "free_to_keep", it.title, steam_url,
                                it.expiry, NULL, NULL)
                        EXCEPT !.image_url = IF app_id # NULL THEN "header.jpg" ELSE NULL]
         IN  IF ~FreeOffer(it) \/ it.url = NULL
             THEN SteamFreeLoop(Tail(items), slow_limit, scrape_left, heads, out)
             ELSE SteamFreeLoop(Tail(items), slow_limit,
                                IF scrape THEN scrape_left - 1 ELSE scrape_left,
                                IF opaque THEN heads + 1 ELSE heads,
                                Append(out, cand))

\* fetch_itad_steam(slow_limit=...) on the items of the response: the
\* candidates, and the number of redirect-following requests it made
fetch_itad_steam_run(items, slow_limit) ==
    SteamFreeLoop(items, slow_limit, SCRAPE_BUDGET, 0, <<>>)

\* fetch_itad_steam() on the items of the response
fetch_itad_steam(items) == fetch_itad_steam_run(items, SLOW_LIMIT).out

\* a hot-deal path that keeps free offers
KeepsFreeOffers(cut, price_amount) == FALSE

\* if cut == 100 or price_amount == 0: continue
SkipsFreeOffers(cut, price_amount) == cut = 100 \/ price_amount = 0

\* the loop of fetch_itad_steam_hot_deals: the candidates with a cut of 70-89
\* and of 90 and more, in upstream order, one per url; push_candidate puts
\* an item into one of the two lists by the fixed bounds 70-89 and 90+, so
\* an item that passed `cut < min_cut` with a cut under 70 enters neither
RECURSIVE HotLoop(_, _, _, _, _)
HotLoop(items, min_cut, seen_urls, cand_70_89, cand_90_plus) ==
    IF items = <<>> THEN [cand_70_89 |-> cand_70_89, cand_90_plus |-> cand_90_plus]
    ELSE LET it == Head(items)
             cut == it.cut.val                            \* int(cut)
             skip == \/ it.cut.type = "none"
                     \/ cut < min_cut
                     \/ SkipsFreeOffers(cut, it.amount)
                     \/ it.url = NULL
                     \/ it.url \in seen_urls
             cand == SteamCand("", "hot_deal", it.title, it.url, it.expiry,
                               cut, it.amount)
         IN  IF skip
             THEN HotLoop(Tail(items), min_cut, seen_urls, cand_70_89, cand_90_plus)
             ELSE IF 70 <= cut /\ cut <= 89
             THEN HotLoop(Tail(items), min_cut, seen_urls \cup {it.url},
                          Append(cand_70_89, cand), cand_90_plus)
             ELSE IF cut >= 90
             THEN HotLoop(Tail(items), min_cut, seen_urls \cup {it.url},
                          cand_70_89, Append(cand_90_plus, cand))
             ELSE HotLoop(Tail(items), min_cut, seen_urls \cup {it.url},
                          cand_70_89, cand_90_plus)

\* random.shuffle: every order
RECURSIVE Perms(_)
Perms(q) ==
    IF q = <<>> THEN {<<>>}
    ELSE UNION {{<<q[k]>> \o p : p \in Perms(Without(q, k))} : k \in 1..Len(q)}

Take(q, n) == SubSeq(q, 1, Min(n, Len(q)))               \* q[:n]
Drop(q, n) == SubSeq(q, Min(n, Len(q)) + 1, Len(q))      \* q[n:]

\* fetch_itad_steam_hot_deals on the items of the response: every list it
\* can return
fetch_itad_steam_hot_deals(items, min_cut, keep, mix_70_89, mix_90_plus) ==
    LET c == HotLoop(items, min_cut, {}, <<>>, <<>>)
    IN  {LET picked == Take(a, mix_70_89) \o Take(b, mix_90_plus)
             rest == Drop(b, mix_90_plus) \o Drop(a, mix_70_89)
             filled == IF Len(picked) < keep
                       THEN picked \o Take(rest, keep - Len(picked))
                       ELSE picked
         IN  Take(filled, keep)
         : a \in Perms(c.cand_70_89), b \in Perms(c.cand_90_plus)}

\* the item list ITAD answers the requests of the cycle with
InitSteam ==
    /\ deals = EmptyTable
    /\ now = 0
    /\ bot = FALSE
    /\ lock = FALSE
    /\ running = <<>>
    /\ waiting = 0
    /\ ret = NoRet
    /\ inp \in SeqsUpTo(SteamItems, MaxItems)
    /\ fresh = FALSE

\* deals = fetch_itad_steam() + fetch_itad_steam_hot_deals(70, keep=120),
\* both requests answered with the same item list
SteamFetch(items) ==
    /\ \E hot \in fetch_itad_steam_hot_deals(items, MIN_CUT, HOT_KEEP,
                                             MIX_70_89, MIX_90_PLUS) :
         ret' = [NoRet EXCEPT !.op = "steam_fetch", !.store = "steam",
                              !.rows = fetch_itad_steam(items) \o hot,
                              !.fetched = Len(fetch_itad_steam(items)) + Len(hot)]
    /\ UNCHANGED <<deals, now, bot, lock, running, waiting, inp, fresh>>

NextSteam == SteamFetch(inp)

SpecSteam == InitSteam /\ [][NextSteam]_vars

\* the upstream item is free: a cut of 100 or a price of 0
IsFreeItem(it) == (it.cut.type # "none" /\ it.cut.val = 100) \/ it.amount = 0

\* candidate c was made from upstream item it: it has the item's title and
\* the item's url, as sent or as resolved
MadeFrom(c, it) == c.title = it.title /\ c.url \in {it.url, head_final_url(it.url)}

\* C20: in one Steam polling cycle no upstream item with a cut of 100 or a
\* price of 0 is in the result of the hot-deal path, every hot_deal
\* candidate has a cut below 100 and a price other than 0, and no upstream
\* item is returned both as free_to_keep and as hot_deal.
C20_KindExclusive ==
    [][ret'.op = "steam_fetch" =>
        LET res == ret'.rows
            hot == {k \in 1..Len(res) : res[k].kind = "hot_deal"}
            free == {k \in 1..Len(res) : res[k].kind = "free_to_keep"}
        IN  /\ hot \cup free = 1..Len(res)
            /\ \A k \in hot :
                 /\ res[k].discount_pct # 100 /\ res[k].price_new # 0
                 /\ \E j \in 1..Len(inp) : MadeFrom(res[k], inp[j])
                 /\ \A j \in 1..Len(inp) :
                      IsFreeItem(inp[j]) => ~MadeFrom(res[k], inp[j])
            /\ \A k \in hot, j \in free :
                 ~(res[k].title = res[j].title /\ res[k].url = res[j].url)]_vars

\* a cycle has just returned a free_to_keep candidate made from an item with
\* price 0 and a cut of 90, which the cut alone would make a hot deal, and
\* a hot_deal candidate made from another item
C20_Witness ==
    /\ ret.op = "steam_fetch" /\ Len(inp) = 2
    /\ \E k \in 1..Len(ret.rows) : \E j \in 1..Len(inp) :
         /\ ret.rows[k].kind = "free_to_keep" /\ MadeFrom(ret.rows[k], inp[j])
         /\ inp[j].cut.val = 90 /\ inp[j].amount = 0
    /\ \E k \in 1..Len(ret.rows) : ret.rows[k].kind = "hot_deal"

----------------------------------------------------------------------------
(* fetch_itad_steam_hot_deals called with other thresholds and sizes *)

\* discounts of 50, 65, 80, 85 (as a string) and 95 percent, a 90 percent
\* cut at price 0 and a full discount under the url of the 80 percent item
HotItems ==
    {Item("A", "s/app/1", CutInt(100), 0, EndZ(5)),
     Item("C", "s/app/3", CutInt(90), 0, EndNull),
     Item("D", "s/app/1", CutInt(80), 3, EndZ(2)),
     Item("E", "s/app/4", CutInt(95), 1, EndNull),
     Item("F", "s/sub/5", CutStr(85), 2, EndNull),
     Item("G", "s/app/6", CutInt(50), 5, EndNull),
     Item("K", "s/app/9", CutInt(65), 4, EndNull)}

\* min_cut: under the default, the default, above it
HotMinCuts == {50, MIN_CUT, 90}

\* keep: one, the default of the function, the value job_async passes
HotKeeps == {1, 20, HOT_KEEP}

InitHot ==
    /\ deals = EmptyTable
    /\ now = 0
    /\ bot = FALSE
    /\ lock = FALSE
    /\ running = <<>>
    /\ waiting = 0
    /\ ret = NoRet
    /\ inp \in SeqsUpTo(HotItems, MaxItems)
    /\ fresh = FALSE

\* fetch_itad_steam_hot_deals(min_cut, keep=keep) on the items of the response
HotDealsCall(min_cut, keep) ==
    /\ \E hot \in fetch_itad_steam_hot_deals(inp, min_cut, keep,
                                             MIX_70_89, MIX_90_PLUS) :
         ret' = [NoRet EXCEPT !.op = "hot_deals", !.store = "steam",
                              !.rows = hot, !.fetched = Len(hot),
                              !.min_cut = min_cut, !.keep = keep]
    /\ UNCHANGED <<deals, now, bot, lock, running, waiting, inp, fresh>>

NextHot == \E min_cut \in HotMinCuts, keep \in HotKeeps : HotDealsCall(min_cut, keep)

SpecHot == InitHot /\ [][NextHot]_vars

\* the upstream items that are not free, have a url and a cut of at least m
Discounted(items, m) ==
    {j \in 1..Len(items) : /\ ~IsFreeItem(items[j])
                           /\ items[j].url # NULL
                           /\ items[j].cut.type # "none"
                           /\ items[j].cut.val >= m}

\* C21 as stated: for every threshold min_cut the hot-deal path returns only
\* candidates with a discount of at least min_cut, all of kind hot_deal, and
\* when the non-free items with a url and a discount of at least min_cut are
\* no more than keep, every one of them whose url no other item shares is
\* returned.
C21_ThresholdClassifies ==
    [][ret'.op = "hot_deals" =>
        LET res == ret'.rows
            Q == Discounted(inp, ret'.min_cut)
        IN  /\ \A k \in 1..Len(res) :
                 res[k].kind = "hot_deal" /\ res[k].discount_pct >= ret'.min_cut
            /\ Cardinality(Q) <= ret'.keep =>
                 \A j \in Q :
                    (\A i \in 1..Len(inp) : i # j => inp[i].url # inp[j].url)
                       => \E k \in 1..Len(res) : MadeFrom(res[k], inp[j])]_vars

----------------------------------------------------------------------------
(* The free fetch paths of Steam and GOG on one ITAD response *)

\* fetch_itad_gog on the items of the response; the deal dict carries no id,
\* so external_id is the url
RECURSIVE fetch_itad_gog(_)
fetch_itad_gog(items) ==
    IF items = <<>> THEN <<>>
    ELSE LET it == Head(items)
             rest == fetch_itad_gog(Tail(items))
         IN  IF ~FreeOffer(it) THEN rest
             ELSE IF it.url = NULL THEN rest
             ELSE <<[SteamCand(it.url, "free_to_keep", it.title, it.url, it.expiry,
                               NULL, NULL) EXCEPT !.store = "gog"]>> \o rest

\* deals = fetch_itad_steam()
FreeSteamCall ==
    /\ ret' = [NoRet EXCEPT !.op = "free_path", !.store = "steam",
                            !.rows = fetch_itad_steam(inp),
                            !.fetched = Len(fetch_itad_steam(inp))]
    /\ UNCHANGED <<deals, now, bot, lock, running, waiting, inp, fresh>>

\* deals = fetch_itad_gog()
FreeGogCall ==
    /\ ret' = [NoRet EXCEPT !.op = "free_path", !.store = "gog",
                            !.rows = fetch_itad_gog(inp),
                            !.fetched = Len(fetch_itad_gog(inp))]
    /\ UNCHANGED <<deals, now, bot, lock, running, waiting, inp, fresh>>

NextFree ==
    \/ FreeSteamCall
    \/ FreeGogCall

SpecFree == InitSteam /\ [][NextFree]_vars

\* the upstream deals a free path has to accept: the cut is the number 100
\* or the price amount is 0, and the deal has a url
Accepted(items) ==
    {j \in 1..Len(items) :
        /\ (items[j].cut = CutInt(100) \/ items[j].amount = 0)
        /\ items[j].url # NULL}

\* C22: the free paths of Steam and GOG return one candidate for every
\* upstream deal that has a url and a cut equal to 100 or a price amount of
\* 0, and none for any other deal; every candidate is of kind free_to_keep
\* and of the store of the path.
C22_FreePathsAcceptExactlyFree ==
    [][ret'.op = "free_path" =>
        LET res == ret'.rows
        IN  /\ Len(res) = Cardinality(Accepted(inp))
            /\ \A k \in 1..Len(res) :
                 /\ res[k].kind = "free_to_keep"
                 /\ res[k].store = ret'.store
                 /\ \E j \in Accepted(inp) : MadeFrom(res[k], inp[j])
            /\ \A j \in Accepted(inp) : \E k \in 1..Len(res) : MadeFrom(res[k], inp[j])
            /\ \A j \in (1..Len(inp)) \ Accepted(inp) :
                 \A k \in 1..Len(res) : ~MadeFrom(res[k], inp[j])]_vars

\* the GOG path has just returned one candidate for a response of three
\* deals: a deal at price 0 with a cut of 90, a free deal without a url and
\* a deal with a cut of 80
C22_Witness ==
    /\ ret.op = "free_path" /\ ret.store = "gog"
    /\ Len(inp) = 3 /\ Len(ret.rows) = 1
    /\ \E j \in 1..3 : inp[j].cut = CutInt(90) /\ inp[j].amount = 0 /\ inp[j].url # NULL
    /\ \E j \in 1..3 : inp[j].cut = CutInt(100) /\ inp[j].url = NULL
    /\ \E j \in 1..3 : inp[j].cut = CutInt(80) /\ inp[j].amount > 0

----------------------------------------------------------------------------
(* fetch_epic on the elements of one freeGamesPromotions response *)

Offer(startDate, endDate) == [startDate |-> startDate, endDate |-> endDate]

\* a catalog element: title, product page url, the offers of all its
\* promotionalOffers blocks in order, price.totalPrice.discountPrice
Element(title, url, offers, discountPrice) ==
    [title |-> title, url |-> url, offers |-> offers, discountPrice |-> discountPrice]

\* Epic sends dates as "...Z" or null; one element has a start that is no date
EpicElements ==
    {Element("Now", "e/p/now", <<Offer(EndZ(0 - 1), EndZ(1))>>, 0),
     Element("Soon", "e/p/soon", <<Offer(EndZ(2), EndZ(5))>>, 0),
     Element("Over", "e/p/over", <<Offer(EndZ(0 - 5), EndZ(0 - 1))>>, 0),
     Element("Again", "e/p/again",
             <<Offer(EndZ(0 - 5), EndZ(0 - 1)), Offer(EndZ(0), EndZ(1))>>, 0),
     Element("Twice", "e/p/twice",
             <<Offer(EndZ(0 - 1), EndZ(0)), Offer(EndZ(0 - 2), EndZ(3))>>, 0),
     Element("Sale", "e/p/sale", <<Offer(EndZ(0), EndZ(1))>>, 1999),
     Element("Open", "e/p/open", <<Offer(EndZ(0 - 1), EndNull)>>, 0),
     Element("Odd", "e/p/odd", <<Offer(EndBad, EndZ(1))>>, 0),
     Element("Plain", "e/p/plain", <<>>, 1999)}

\* the local parse_iso of fetch_epic: None, or fromisoformat after "Z" -> "+00:00"
parse_iso(s) == parse_iso_utc(s)

\* an offer that counts as active whatever its start
ActiveIgnoringStart(off, t) ==
    LET edt == parse_iso(off.endDate)
    IN  IF edt.ok /\ t <= edt.day THEN "active" ELSE "no"

\* sdt and edt and sdt <= now <= edt; comparing a zone-less date with now
\* raises TypeError
OfferActive(off, t) ==
    LET sdt == parse_iso(off.startDate)
        edt == parse_iso(off.endDate)
    IN  IF ~(sdt.ok /\ edt.ok) THEN "no"
        ELSE IF ~sdt.aware THEN "TypeError"
        ELSE IF ~(sdt.day <= t) THEN "no"
        ELSE IF ~edt.aware THEN "TypeError"
        ELSE IF t <= edt.day THEN "active" ELSE "no"

\* for off in offers: ... active = off; break
RECURSIVE FirstActive(_, _)
FirstActive(offers, t) ==
    IF offers = <<>> THEN [found |-> "no", off |-> Offer(EndNull, EndNull)]
    ELSE LET a == OfferActive(Head(offers), t)
         IN  IF a = "active" THEN [found |-> "active", off |-> Head(offers)]
             ELSE IF a = "TypeError" THEN [found |-> "TypeError", off |-> Head(offers)]
             ELSE FirstActive(Tail(offers), t)

\* a candidate dict of fetch_epic; kind is set by `kind = "free_to_keep"`,
\* discount_price is read and not used
EpicCand(e, active) ==
    [store |-> "epic", external_id |-> e.url, kind |-> "free_to_keep",
     title |-> e.title, url |-> e.url,
     starts_at |-> active.startDate, ends_at |-> active.endDate]

\* the loop over the elements; an exception leaves fetch_epic
RECURSIVE EpicLoop(_, _, _)
EpicLoop(elements, t, out) ==
    IF elements = <<>> THEN [raised |-> FALSE, out |-> out]
    ELSE LET e == Head(elements)
             f == FirstActive(e.offers, t)
         IN  IF f.found = "TypeError" THEN [raised |-> TRUE, out |-> <<>>]
             ELSE IF f.found = "no" THEN EpicLoop(Tail(elements), t, out)
             ELSE EpicLoop(Tail(elements), t, Append(out, EpicCand(e, f.off)))

fetch_epic(elements, t) == EpicLoop(elements, t, <<>>)

InitEpic ==
    /\ deals = EmptyTable
    /\ now = 0
    /\ bot = FALSE
    /\ lock = FALSE
    /\ running = <<>>
    /\ waiting = 0
    /\ ret = NoRet
    /\ inp \in SeqsUpTo(EpicElements, MaxItems)
    /\ fresh = FALSE

\* deals = fetch_epic()
EpicCall ==
    /\ LET f == fetch_epic(inp, now)
       IN  ret' = [NoRet EXCEPT !.op = "fetch_epic", !.store = "epic",
                                !.status = IF f.raised THEN "raised" ELSE "ok",
                                !.rows = f.out, !.fetched = Len(f.out)]
    /\ UNCHANGED <<deals, now, bot, lock, running, waiting, inp, fresh>>

NextEpic ==
    \/ EpicCall
    \/ Tick

SpecEpic == InitEpic /\ [][NextEpic]_vars

\* the offers of element e whose dates are both dates with start <= t <= end
Windows(e, t) ==
    {k \in 1..Len(e.offers) :
        /\ e.offers[k].startDate.form = "z" /\ e.offers[k].endDate.form = "z"
        /\ e.offers[k].startDate.day <= t /\ t <= e.offers[k].endDate.day}

\* C23: fetch_epic returns one candidate for every catalog element that has
\* an offer whose startDate and endDate are dates with startDate <= now <=
\* endDate, and none for an element whose offers all start later, have ended
\* or lack a date; the candidate's starts_at and ends_at are those of the
\* first such offer of the element.
C23_EpicActiveWindow ==
    [][ret'.op = "fetch_epic" =>
        LET res == ret'.rows
            act == {j \in 1..Len(inp) : Windows(inp[j], now) # {}}
            first(j) == inp[j].offers[CHOOSE k \in Windows(inp[j], now) :
                                        \A m \in Windows(inp[j], now) : k <= m]
        IN  /\ ret'.status = "ok"
            /\ Len(res) = Cardinality(act)
            /\ \A j \in act : \E k \in 1..Len(res) :
                 /\ res[k].title = inp[j].title /\ res[k].url = inp[j].url
                 /\ res[k].starts_at = first(j).startDate
                 /\ res[k].ends_at = first(j).endDate
            /\ \A k \in 1..Len(res) : \E j \in act : res[k].title = inp[j].title
            /\ \A j \in (1..Len(inp)) \ act :
                 \A k \in 1..Len(res) : res[k].title # inp[j].title]_vars

\* fetch_epic has just returned one candidate for three elements: one whose
\* first offer has ended and whose second is running, with the dates of the
\* second, none for the element that starts later and none for the one
\* that has ended
C23_Witness ==
    /\ ret.op = "fetch_epic" /\ Len(inp) = 3 /\ Len(ret.rows) = 1
    /\ \E j \in 1..3 :
         /\ Len(inp[j].offers) = 2
         /\ inp[j].offers[1].endDate.day < now
         /\ ret.rows[1].title = inp[j].title
         /\ ret.rows[1].starts_at = inp[j].offers[2].startDate
         /\ ret.rows[1].ends_at = inp[j].offers[2].endDate
    /\ \E j \in 1..3 : Len(inp[j].offers) = 1 /\ inp[j].offers[1].startDate.day > now
    /\ \E j \in 1..3 : Len(inp[j].offers) = 1 /\ inp[j].offers[1].endDate.form = "z"
                       /\ inp[j].offers[1].endDate.day < now

\* the element a candidate was made from
ElementOf(c) == CHOOSE e \in EpicElements : e.title = c.title

\* C24 as stated: a candidate of fetch_epic has kind free_to_keep when the
\* discounted total price of its element is 0 and kind free_weekend
\* otherwise.
C24_EpicKindByPrice ==
    [][ret'.op = "fetch_epic" =>
        \A k \in 1..Len(ret'.rows) :
            ret'.rows[k].kind = IF ElementOf(ret'.rows[k]).discountPrice = 0
                                THEN "free_to_keep" ELSE "free_weekend"]_vars

----------------------------------------------------------------------------
(* Whole job runs on tables with more unposted rows than a store's limit *)

\* three epic rows, four gog rows and a prime row, all unposted and free,
\* and a posted gog row
CapRows ==
    {Row("epic", "e1", "free_to_keep", "Celeste", "e/p/celeste", EndZ(3), 0, 0 - 5),
     Row("epic", "e2", "free_to_keep", "Hades", "e/p/hades", EndZ(3), 0, 0 - 4),
     Row("epic", "e3", "free_weekend", "Control", "e/p/control", EndZ(2), 0, 0 - 6),
     Row("gog", "g1", "free_to_keep", "Fez", "g/game/fez", EndZ(4), 0, 0 - 5),
     Row("gog", "g2", "free_to_keep", "Braid", "g/game/braid", EndNull, 0, 0 - 4),
     Row("gog", "g3", "free_to_keep", "Limbo", "g/game/limbo", EndZ(4), 0, 0 - 3),
     Row("gog", "g4", "free_to_keep", "Inside", "g/game/inside", EndZ(4), 0, 0 - 2),
     Row("gog", "g5", "free_to_keep", "Gris", "g/game/gris", EndZ(4), 1, 0 - 9),
     Row("prime", "p/old", "free_to_keep", "Prime Gaming", "p/old", EndEmpty, 0, 0 - 30)}

InitCap ==
    /\ deals \in {TableOf(S) : S \in SUBSET CapRows}
    /\ now = 0
    /\ bot \in BOOLEAN
    /\ lock = FALSE
    /\ running = <<>>
    /\ waiting = 0
    /\ ret = NoRet
    /\ inp = <<>>
    /\ fresh = FALSE

\* one job_async(arg) from `async with JOB_LOCK` to its return, with no other
\* coroutine in between: the fetch fails, or the store is unknown, or the
\* fetched batch is saved and the Publisher is called with the store's limit
JobRun(arg) ==
    /\ ~lock
    /\ LET st == StoreNorm(arg)
       IN  \/ /\ st \in KnownStores
              /\ ret' = JobError(arg, "HTTPError")
              /\ UNCHANGED deals
           \/ /\ st \notin KnownStores
              /\ ret' = JobOk(st, 0, 0, 0, 0, "unknown store", <<>>)
              /\ UNCHANGED deals
           \/ /\ st \in KnownStores
              /\ \E batch \in Upstream(st) :
                   LET s == save_deals(deals, batch, now)
                   IN  \E o \in post_unposted_to_telegram(s.db, PostLimit(st), st, bot) :
                         /\ deals' = o.db
                         /\ ret' = [(IF o.raised
                                     THEN [JobError(arg, o.reason) EXCEPT !.rows = o.rows]
                                     ELSE JobOk(st, Len(batch), s.new_items, o.posted,
                                                o.queued, o.reason, o.rows))
                                    EXCEPT !.limit = PostLimit(st)]
    /\ UNCHANGED <<now, bot, lock, running, waiting, inp, fresh>>

NextCap == \E arg \in JobArgs : JobRun(arg)

SpecCap == InitCap /\ [][NextCap]_vars

\* the rows whose posted flag goes from 0 to 1 in this step
MarkedNow == {i \in DOMAIN deals \cap DOMAIN deals' :
                deals[i].posted = 0 /\ deals'[i].posted = 1}

----------------------------------------------------------------------------
(* fetch_itad_steam with its slow_limit argument *)

MaxSlow == 2        \* largest slow_limit of a call

\* free items behind three itad.link redirects (one of them dead), a free
\* item with a Steam url, and a discounted item behind a redirect
SlowItems ==
    {Item("P", "itad.link/a", CutInt(100), 0, EndNull),
     Item("Q", "itad.link/b", CutInt(100), 0, EndZ(3)),
     Item("R", "itad.link/dead", CutInt(100), 0, EndNull),
     Item("S", "s/app/1", CutInt(100), 0, EndNull),
     Item("T", "itad.link/a", CutInt(50), 5, EndNull)}

InitSlow ==
    /\ deals = EmptyTable
    /\ now = 0
    /\ bot = FALSE
    /\ lock = FALSE
    /\ running = <<>>
    /\ waiting = 0
    /\ ret = NoRet
    /\ inp \in SeqsUpTo(SlowItems, MaxItems)
    /\ fresh = FALSE

\* fetch_itad_steam(slow_limit=slow_limit)
SteamSlowCall(slow_limit) ==
    /\ LET r == fetch_itad_steam_run(inp, slow_limit)
       IN  ret' = [NoRet EXCEPT !.op = "fetch_itad_steam", !.store = "steam",
                                !.rows = r.out, !.fetched = Len(r.out),
                                !.slow_limit = slow_limit, !.heads = r.heads]
    /\ UNCHANGED <<deals, now, bot, lock, running, waiting, inp, fresh>>

NextSlow == \E slow_limit \in 0..MaxSlow : SteamSlowCall(slow_limit)

SpecSlow == InitSlow /\ [][NextSlow]_vars

\* C26 as stated: in one run of the Steam free path the number of
\* redirect-following requests made for opaque links is at most the run's
\* slow_limit, however many items the response holds.
C26_RedirectsWithinSlowLimit ==
    [][ret'.op = "fetch_itad_steam" => ret'.heads <= ret'.slow_limit]_vars

----------------------------------------------------------------------------
(* Claims on the job lock, the sweep and the kind column *)

\* C27 as stated: a Publisher pass that selects rows, whether it is the pass
\* of a job run or the pass of post_last, runs only while the job lock is
\* held.
C27_PublisherOnlyUnderLock ==
    [][/\ ret'.op \in {"job_async", "post_last"}
       /\ ret'.error = "NameError"      \* the pass got to its first selected row
       => lock]_vars

\* run k saves its fetched batch in this step
SaveStep(k) ==
    /\ k \in 1..Len(running) /\ running[k].pc = "fetch"
    /\ k \in 1..Len(running') /\ running'[k].pc = "publish"

\* C29: the sweep removes every row whose ends_at is an instant earlier than
\* now minus keep_days, with posted 0 as with posted 1; whenever a job run
\* saves a candidate whose (store, url) is not stored, whether or not a row
\* for it was swept before, the row is inserted with posted = 0 and
\* created_at = now; and a Publisher pass of a job run for that store
\* selects every unposted free row of the store when they are within its
\* limit.
C29_SweptRowComesBackUnposted ==
    [][/\ ret'.op = "cleanup" =>
            \A i \in DOMAIN deals :
                IsInstant(deals[i].ends_at) /\ deals[i].ends_at.day < now - ret'.keep_days
                => i \notin DOMAIN deals'
       /\ \A k \in 1..Len(running) : SaveStep(k) =>
            \A j \in Keyed(running'[k].batch) :
                LET c == running'[k].batch[j]
                IN  RowsFor(deals, c) = {} =>
                      /\ Cardinality(RowsFor(deals', c)) = 1
                      /\ \A i \in RowsFor(deals', c) :
                           /\ deals'[i].posted = 0
                           /\ deals'[i].created_at = now
                           /\ c.kind \in FreeKinds => i \in Unposted(deals', c.store)
       /\ JobPassStep /\ bot =>
            LET st == StoreNorm(running[1].store)
            IN  Cardinality(Unposted(deals, st)) <= PostLimit(st)
                => SeqSet(ret'.rows) = Unposted(deals, st)]_vars

\* the gog row that was stored as posted, created 10 days ago and ended 8
\* days ago, is stored again with posted = 0 and a created_at of today or
\* later, and the pass of a gog job run has just selected it; the other
\* rows of the table the process started with are still there
C29_Witness ==
    /\ ret.op = "job_async" /\ StoreNorm(ret.store) = "gog"
    /\ \E i \in DOMAIN deals :
         /\ deals[i].store = "gog" /\ deals[i].url = "g/game/fez"
         /\ deals[i].posted = 0 /\ deals[i].created_at >= 0
         /\ i \in SeqSet(ret.rows)
    /\ \E i \in DOMAIN deals : deals[i].store = "prime" /\ deals[i].url = "p/old"

\* C30: no step changes the kind of a row that stays stored, and only the
\* sweep removes a row; a job run that saves a candidate whose (store, url)
\* is already stored leaves that row as it was, so a row stored as hot_deal
\* stays hot_deal when the same (store, url) is delivered as free_to_keep;
\* a hot_deal row has posted = 0 and is in the selection of no job run's
\* Publisher pass.
C30_KindIsNeverRewritten ==
    [][/\ \A i \in DOMAIN deals :
            IF i \in DOMAIN deals' THEN deals'[i].kind = deals[i].kind
            ELSE ret'.op = "cleanup"
       /\ \A k \in 1..Len(running) : SaveStep(k) =>
            \A j \in Keyed(running'[k].batch) :
                \A i \in RowsFor(deals, running'[k].batch[j]) :
                    i \in DOMAIN deals' /\ deals'[i] = deals[i]
       /\ \A i \in DOMAIN deals' : deals'[i].kind = "hot_deal" =>
            /\ deals'[i].posted = 0
            /\ ret'.op = "job_async" => i \notin SeqSet(ret'.rows)]_vars

\* a steam job run that fetched the free_to_keep candidate for s/app/10 has
\* just ended with the bot configured: it stored nothing new and its pass
\* selected nothing, and the row of s/app/10 is still the hot_deal row
\* created 20 days ago, with posted = 0
C30_Witness ==
    /\ ret.op = "job_async" /\ ret.store = "steam" /\ ret.status = "ok" /\ bot
    /\ ret.fetched = 1 /\ ret.new = 0 /\ ret.rows = <<>>
    /\ SteamFree.kind = "free_to_keep"
    /\ \E i \in RowsFor(deals, SteamFree) :
         deals[i].kind = "hot_deal" /\ deals[i].posted = 0 /\ deals[i].created_at = 0 - 20

====
